---- MODULE Spec2Model ----
(***************************************************************************)
(* Model of wandb_osh.syncer.WandbSyncer: the control loop that turns      *)
(* command files into sync jobs run on a thread pool.                      *)
(*                                                                         *)
(* The control loop is one thread; it is modelled by the variable pc and   *)
(* one action per step of WandbSyncer.loop.  The environment runs          *)
(* concurrently with it: a producer that writes command files, another     *)
(* process that may remove them, directories being created, and the        *)
(* worker threads on which the submitted jobs finish.                      *)
(***************************************************************************)
EXTENDS Integers, Sequences, FiniteSets

\* ------------------------------------------------------------------ bounds
\* Number of target directories, largest max_workers, and how many command
\* files the producer writes and another process removes in one behaviour.
NumTargets == 2
MaxWorkers == 2
MaxProduce == 2
MaxDeletes == 1
\* Number of invalid values (0, -1, ...) tried for the max_workers argument.
NumInvalid == 2
\* Number of targets signalled at once before the loop is invoked.
NumBurst == 3
\* Largest poll wait and largest work time of a cycle, in clock ticks.
MaxWait == 6
MaxElapsed == 8

\* The targets the producer signals while the loop runs, and those signalled
\* at once before it is invoked.
Targets == 1..NumTargets
BurstTargets == 1..NumBurst
\* A command file is named after the basename of the target it names (hooks.py).
FileNames == Targets \cup BurstTargets
Nil == 0

Outcomes == {"ok", "timeout", "error"}

VARIABLES
    max_workers,    \* the max_workers argument, self.max_workers once constructed
    clock,          \* self.wait, start_time, time.time() and the last sleep of a cycle
    files,          \* the *.command files of command_dir: name -> content (a target) or Nil
    dirs,           \* the targets that are existing directories
    pending,        \* self._pending
    in_progress,    \* self._in_progress, in insertion order: <<[target, state]>>
    pc,             \* position of the control loop
    todo,           \* names listed by glob and not yet read
    command_files,  \* local list command_files
    targets,        \* local list targets
    cf_idx,         \* index of cf in `for cf in command_files`
    cf_is_file,     \* cf.is_file() has returned True, cf.unlink() is next
    raised,         \* the exception that left loop(), or "none"
    log,            \* log records emitted by the latest step of the control loop
    produced,       \* number of command files written by the producer so far
    deleted,        \* number of command files removed by another process so far
    \* history variables (not program state)
    unread,         \* command files written since they were last read
    seen_valid,     \* targets ingested at least once while an existing directory
    requeued        \* targets requeued after a timeout and not yet re-dispatched

vars == <<max_workers, clock, produced, deleted, files, dirs, pending, in_progress, pc,
          todo, command_files, targets, cf_idx, cf_is_file, raised, log, unread,
          seen_valid, requeued>>

loop_vars == <<pc, todo, command_files, targets, cf_idx, cf_is_file, raised>>
hist_vars == <<unread, seen_valid, requeued>>

\* ------------------------------------------------------------------ helpers
Range(s) == {s[i] : i \in DOMAIN s}

InFlight(ip) == {ip[i].target : i \in DOMAIN ip}

IsDone(job) == job.state # "running"

\* All orders in which a set can be iterated.
Orderings(S) ==
    {s \in [1..Cardinality(S) -> S] : \A i, j \in DOMAIN s : i # j => s[i] # s[j]}

\* ------------------------------------------------------------------ hooks.py
\* TriggerWandbSyncHook(command_dir)(target): writes the command file named
\* after the target, with the target path as content.
CmdName(target) == target

TriggerWandbSyncHook(fs, target) == [fs EXCEPT ![CmdName(target)] = target]

\* ------------------------------------------------------------------ _collect_done
\* A faulty _requeue that forgets self._pending.add.
RequeueFileOnly(st, target) ==
    [st EXCEPT !.files = TriggerWandbSyncHook(st.files, target),
               !.requeued = st.requeued \cup {target}]

\* WandbSyncer._requeue on the state st.
Requeue(st, target) ==
    [st EXCEPT !.files = TriggerWandbSyncHook(st.files, target),
               !.pending = st.pending \cup {target},
               !.requeued = st.requeued \cup {target}]

\* A faulty reclaim that pops every entry, done or not.
CollectDoneAll(rest, kept, st) == [st EXCEPT !.in_progress = <<>>]

\* WandbSyncer._collect_done: the futures that are done are popped in
\* insertion order; future.result() re-raises what the job raised, and only
\* subprocess.TimeoutExpired is caught.  rest: the entries not yet visited,
\* kept: the entries visited and still running.
RECURSIVE CollectDone(_, _, _)
CollectDone(rest, kept, st) ==
    IF rest = <<>> THEN [st EXCEPT !.in_progress = kept]
    ELSE LET job == Head(rest) IN
         CASE job.state = "running" ->
                CollectDone(Tail(rest), Append(kept, job), st)
           [] job.state = "ok" ->
                CollectDone(Tail(rest), kept, st)
           [] job.state = "timeout" ->
                CollectDone(Tail(rest), kept,
                    Requeue([st EXCEPT !.log = Append(st.log, <<"warning", job.target>>)],
                            job.target))
           [] OTHER ->
                [st EXCEPT !.in_progress = kept \o Tail(rest), !.raised = "result"]

Reclaim(lg) ==
    CollectDone(in_progress, <<>>,
        [in_progress |-> in_progress, pending |-> pending, files |-> files,
         log |-> lg, raised |-> "none", requeued |-> {}])

\* ------------------------------------------------------------------ _schedule
\* A faulty capacity that ignores the jobs in flight.
AvailableAll(mw, ip) == mw

\* available = self.max_workers - len(self._in_progress)
Available(mw, ip) == mw - Len(ip)

\* A faulty for loop that never breaks on available <= 0.
ScheduleLoopAll(ord, available, st) ==
    [pending |-> st.pending \ Range(ord),
     log |-> st.log \o [i \in 1..Len(ord) |-> <<"info", ord[i]>>],
     in_progress |-> st.in_progress \o
                        [i \in 1..Len(ord) |-> [target |-> ord[i], state |-> "running"]],
     submitted |-> st.submitted \o ord]

\* The for loop of _schedule over list(self._pending) in the order ord.
RECURSIVE ScheduleLoop(_, _, _)
ScheduleLoop(ord, available, st) ==
    IF ord = <<>> \/ available <= 0 THEN st
    ELSE LET target == Head(ord) IN
         ScheduleLoop(Tail(ord), available - 1,
            [pending |-> st.pending \ {target},
             log |-> Append(st.log, <<"info", target>>),
             in_progress |-> Append(st.in_progress,
                                    [target |-> target, state |-> "running"]),
             submitted |-> Append(st.submitted, target)])

Schedule(mw, ip, pend, lg, ord) ==
    LET st == [pending |-> pend, log |-> lg, in_progress |-> ip, submitted |-> <<>>]
        available == Available(mw, ip)
    IN IF available <= 0 \/ pend = {} THEN st
       ELSE ScheduleLoop(ord, available, st)

\* ------------------------------------------------------------------ ingest
\* A faulty update that leaves the targets of the scan out.
PendingUpdateSkipped(pend, tgts) == pend

\* self._pending.update(targets)
PendingUpdate(pend, tgts) == pend \cup Range(tgts)

\* target.is_dir()
IsDir(target, ds) == target \in ds

\* A faulty loop body without the is_dir() test.
IngestFileKeepInvalid(cf, target, ds, cfs, tgts) ==
    [command_files |-> Append(cfs, cf),
     targets |-> Append(tgts, target),
     log |-> <<>>]

\* The body of the for loop over the command files, once read_text has
\* returned target: cf is recorded, and target is kept if it is a directory
\* and reported in the log otherwise.
IngestFile(cf, target, ds, cfs, tgts) ==
    [command_files |-> Append(cfs, cf),
     targets |-> IF IsDir(target, ds) THEN Append(tgts, target) ELSE tgts,
     log |-> IF IsDir(target, ds) THEN <<>> ELSE <<<<"error", cf, target>>>>]

\* ------------------------------------------------------------------ initial state
\* The clock while time is not observed.
NoClock == [wait |-> 0, start_time |-> 0, now |-> 0, slept |-> 0, phase |-> "off"]

Init ==
    /\ max_workers \in 1..MaxWorkers
    /\ clock = NoClock
    /\ files = [f \in FileNames |-> Nil]
    /\ dirs \in SUBSET Targets
    /\ pending = {}
    /\ in_progress = <<>>
    /\ pc = "idle"
    /\ todo = {}
    /\ command_files = <<>>
    /\ targets = <<>>
    /\ cf_idx = 1
    /\ cf_is_file = FALSE
    /\ raised = "none"
    /\ log = <<>>
    /\ produced = 0
    /\ deleted = 0
    /\ unread = {}
    /\ seen_valid = {}
    /\ requeued = {}

\* An instance constructed with the largest max_workers, at a time when the
\* producer has signalled every burst target, all of them existing
\* directories, and signals no more.
InitBurst ==
    /\ max_workers = MaxWorkers
    /\ clock = NoClock
    /\ files = [f \in FileNames |-> IF f \in BurstTargets THEN f ELSE Nil]
    /\ dirs = BurstTargets
    /\ pending = {}
    /\ in_progress = <<>>
    /\ pc = "idle"
    /\ todo = {}
    /\ command_files = <<>>
    /\ targets = <<>>
    /\ cf_idx = 1
    /\ cf_is_file = FALSE
    /\ raised = "none"
    /\ log = <<>>
    /\ produced = IF NumBurst > MaxProduce THEN NumBurst ELSE MaxProduce
    /\ deleted = 0
    /\ unread = BurstTargets
    /\ seen_valid = {}
    /\ requeued = {}

\* ------------------------------------------------------------------ constructor
\* The state before WandbSyncer(..., max_workers=n) runs: there is no instance
\* yet, and max_workers holds the argument n.
InitNew ==
    /\ max_workers \in (1 - NumInvalid)..MaxWorkers
    /\ clock = NoClock
    /\ files = [f \in FileNames |-> Nil]
    /\ dirs \in SUBSET Targets
    /\ pending = {}
    /\ in_progress = <<>>
    /\ pc = "new"
    /\ todo = {}
    /\ command_files = <<>>
    /\ targets = <<>>
    /\ cf_idx = 1
    /\ cf_is_file = FALSE
    /\ raised = "none"
    /\ log = <<>>
    /\ produced = 0
    /\ deleted = 0
    /\ unread = {}
    /\ seen_valid = {}
    /\ requeued = {}

ValidMaxWorkersFromZero(mw) == ~(mw < 0)

\* The argument check of __init__: `if max_workers < 1: raise ValueError`.
ValidMaxWorkers(mw) == ~(mw < 1)

\* WandbSyncer.__init__: raises ValueError and leaves no instance, or yields
\* an instance with an empty _pending and an empty _in_progress.
Construct ==
    /\ pc = "new"
    /\ IF ValidMaxWorkers(max_workers)
       THEN /\ pending' = {}
            /\ in_progress' = <<>>
            /\ pc' = "idle"
            /\ raised' = raised
       ELSE /\ pc' = "raised"
            /\ raised' = "ValueError"
            /\ UNCHANGED <<pending, in_progress>>
    /\ log' = <<>>
    /\ UNCHANGED <<max_workers, clock, produced, deleted, files, dirs, todo, command_files,
                   targets, cf_idx, cf_is_file, hist_vars>>

\* ------------------------------------------------------------------ throttle
\* Time in ticks.  The clock of one cycle after another: start_time is read
\* at the top of the cycle, the work of the cycle takes some time, and the
\* cycle ends with the throttle sleep.
InitThrottle ==
    /\ max_workers = 1
    /\ clock \in {[wait |-> w, start_time |-> 0, now |-> 0, slept |-> 0, phase |-> "work"] :
                     w \in 0..MaxWait}
    /\ files = [f \in FileNames |-> Nil]
    /\ dirs = {}
    /\ pending = {}
    /\ in_progress = <<>>
    /\ pc = "idle"
    /\ todo = {}
    /\ command_files = <<>>
    /\ targets = <<>>
    /\ cf_idx = 1
    /\ cf_is_file = FALSE
    /\ raised = "none"
    /\ log = <<>>
    /\ produced = 0
    /\ deleted = 0
    /\ unread = {}
    /\ seen_valid = {}
    /\ requeued = {}

Max(a, b) == IF a >= b THEN a ELSE b

\* The argument of the last time.sleep of a cycle:
\* max(0.0, (time.time() - start_time) - self.wait).
ThrottleSleep(now, start_time, wait) == Max(0, (now - start_time) - wait)

\* `start_time = time.time()` at the top of a cycle.
CycleBegin ==
    /\ clock.phase = "slept"
    /\ clock' = [clock EXCEPT !.start_time = clock.now, !.phase = "work"]
    /\ UNCHANGED <<max_workers, produced, deleted, files, dirs, pending, in_progress,
                   loop_vars, log, hist_vars>>

\* Time passes while the cycle reclaims, ingests, dispatches and cleans up.
ClockTick ==
    /\ clock.phase = "work"
    /\ clock.now < MaxElapsed
    /\ clock' = [clock EXCEPT !.now = clock.now + 1]
    /\ UNCHANGED <<max_workers, produced, deleted, files, dirs, pending, in_progress,
                   loop_vars, log, hist_vars>>

\* The throttle sleep that ends a cycle.
Throttle ==
    /\ clock.phase = "work"
    /\ LET s == ThrottleSleep(clock.now, clock.start_time, clock.wait)
       IN clock' = [clock EXCEPT !.slept = s, !.now = clock.now + s, !.phase = "slept"]
    /\ UNCHANGED <<max_workers, produced, deleted, files, dirs, pending, in_progress,
                   loop_vars, log, hist_vars>>

\* ------------------------------------------------------------------ environment
\* The producer (TriggerWandbSyncHook in a training process) creates or
\* overwrites the command file of a target.
Produce(t) ==
    /\ produced < MaxProduce
    /\ produced' = produced + 1
    /\ files' = TriggerWandbSyncHook(files, t)
    /\ unread' = unread \cup {CmdName(t)}
    /\ UNCHANGED <<max_workers, clock, deleted, dirs, pending, in_progress, loop_vars, log,
                   seen_valid, requeued>>

\* Another process removes a command file.
ExternalDelete(f) ==
    /\ deleted < MaxDeletes
    /\ deleted' = deleted + 1
    /\ files[f] # Nil
    /\ files' = [files EXCEPT ![f] = Nil]
    /\ unread' = unread \ {f}
    /\ UNCHANGED <<max_workers, clock, produced, dirs, pending, in_progress, loop_vars, log,
                   seen_valid, requeued>>

\* A target directory is created.
MkDir(t) ==
    /\ t \notin dirs
    /\ dirs' = dirs \cup {t}
    /\ UNCHANGED <<max_workers, clock, produced, deleted, files, pending, in_progress,
                   loop_vars, log, hist_vars>>

\* WandbSyncer.sync / sync_dir on a worker thread: the job returns, or raises
\* subprocess.TimeoutExpired, or raises anything else.
JobFinish ==
    /\ \E i \in DOMAIN in_progress, outcome \in Outcomes :
        /\ in_progress[i].state = "running"
        /\ in_progress' = [in_progress EXCEPT ![i].state = outcome]
    /\ UNCHANGED <<max_workers, clock, produced, deleted, files, dirs, pending, loop_vars, log,
                   hist_vars>>

\* ------------------------------------------------------------------ loop()
\* Top of the while loop: mkdir of command_dir, then self._collect_done().
CycleStart ==
    /\ pc = "start"
    /\ LET r == Reclaim(<<>>) IN
        /\ in_progress' = r.in_progress
        /\ pending' = r.pending
        /\ files' = r.files
        /\ log' = r.log
        /\ raised' = r.raised
        /\ pc' = IF r.raised = "none" THEN "glob" ELSE "raised"
        /\ unread' = unread \cup {CmdName(t) : t \in r.requeued}
        /\ requeued' = requeued \cup r.requeued
    /\ todo' = {}
    /\ command_files' = <<>>
    /\ targets' = <<>>
    /\ UNCHANGED <<max_workers, clock, produced, deleted, dirs, cf_idx, cf_is_file,
                   seen_valid>>

\* self.command_dir.glob("*.command") lists the directory.
Glob ==
    /\ pc = "glob"
    /\ todo' = {f \in FileNames : files[f] # Nil}
    /\ pc' = "ingest"
    /\ log' = <<>>
    /\ UNCHANGED <<max_workers, clock, produced, deleted, files, dirs, pending, in_progress,
                   command_files, targets, cf_idx, cf_is_file, raised, hist_vars>>

\* One iteration of the for loop over the listed command files.
Ingest(f) ==
    /\ pc = "ingest"
    /\ f \in todo
    /\ todo' = todo \ {f}
    /\ IF files[f] = Nil
       THEN \* read_text raises FileNotFoundError
            /\ raised' = "read_text"
            /\ pc' = "raised"
            /\ log' = <<>>
            /\ UNCHANGED <<command_files, targets, unread, seen_valid>>
       ELSE LET target == files[f]
                r == IngestFile(f, target, dirs, command_files, targets)
            IN
            /\ command_files' = r.command_files
            /\ targets' = r.targets
            /\ log' = r.log
            /\ unread' = unread \ {f}
            /\ seen_valid' = IF target \in dirs THEN seen_valid \cup {target}
                              ELSE seen_valid
            /\ UNCHANGED <<pc, raised>>
    /\ UNCHANGED <<max_workers, clock, produced, deleted, files, dirs, pending, in_progress,
                   cf_idx, cf_is_file, requeued>>

\* self._pending.update(targets); self._schedule(executor); time.sleep(0.25)
\* list(self._pending) iterates the set in some order ord.
Dispatch ==
    /\ pc = "ingest"
    /\ todo = {}
    /\ \E ord \in Orderings(PendingUpdate(pending, targets)) :
       LET r == Schedule(max_workers, in_progress, PendingUpdate(pending, targets), <<>>, ord)
       IN
        /\ pending' = r.pending
        /\ in_progress' = r.in_progress
        /\ log' = r.log
        /\ requeued' = requeued \ Range(r.submitted)
    /\ pc' = "cleanup"
    /\ cf_idx' = 1
    /\ cf_is_file' = FALSE
    /\ UNCHANGED <<max_workers, clock, produced, deleted, files, dirs, todo, command_files,
                   targets, raised, unread, seen_valid>>

\* for cf in command_files: if cf.is_file():
CleanupCheck ==
    /\ pc = "cleanup"
    /\ ~cf_is_file
    /\ cf_idx <= Len(command_files)
    /\ IF files[command_files[cf_idx]] # Nil
       THEN cf_is_file' = TRUE /\ cf_idx' = cf_idx
       ELSE cf_is_file' = FALSE /\ cf_idx' = cf_idx + 1
    /\ log' = <<>>
    /\ UNCHANGED <<max_workers, clock, produced, deleted, files, dirs, pending, in_progress,
                   pc, todo, command_files, targets, raised, hist_vars>>

\* cf.unlink()
CleanupUnlink ==
    /\ pc = "cleanup"
    /\ cf_is_file
    /\ LET cf == command_files[cf_idx] IN
       IF files[cf] # Nil
       THEN /\ files' = [files EXCEPT ![cf] = Nil]
            /\ unread' = unread \ {cf}
            /\ cf_idx' = cf_idx + 1
            /\ UNCHANGED <<pc, raised>>
       ELSE \* unlink raises FileNotFoundError
            /\ raised' = "unlink"
            /\ pc' = "raised"
            /\ UNCHANGED <<files, unread, cf_idx>>
    /\ cf_is_file' = FALSE
    /\ log' = <<>>
    /\ UNCHANGED <<max_workers, clock, produced, deleted, dirs, pending, in_progress, todo,
                   command_files, targets, seen_valid, requeued>>

\* End of the for loop over command_files.
CleanupDone ==
    /\ pc = "cleanup"
    /\ ~cf_is_file
    /\ cf_idx > Len(command_files)
    /\ pc' = "env"
    /\ log' = <<>>
    /\ UNCHANGED <<max_workers, clock, produced, deleted, files, dirs, pending, in_progress,
                   todo, command_files, targets, cf_idx, cf_is_file, raised, hist_vars>>

\* "PYTEST_CURRENT_TEST" not in os.environ: the throttle sleep, then the next cycle.
Continue ==
    /\ pc = "env"
    /\ pc' = "start"
    /\ log' = <<>>
    /\ UNCHANGED <<max_workers, clock, produced, deleted, files, dirs, pending, in_progress,
                   todo, command_files, targets, cf_idx, cf_is_file, raised, hist_vars>>

\* "PYTEST_CURRENT_TEST" in os.environ: self._wait_for_all() is entered.
Stop ==
    /\ pc = "env"
    /\ pc' = "wait"
    /\ log' = <<>>
    /\ UNCHANGED <<max_workers, clock, produced, deleted, files, dirs, pending, in_progress,
                   todo, command_files, targets, cf_idx, cf_is_file, raised, hist_vars>>

\* _wait_for_all: wait() returns once every in-flight job is done, then
\* _collect_done(), then break.
WaitForAll ==
    /\ pc = "wait"
    /\ \A i \in DOMAIN in_progress : IsDone(in_progress[i])
    /\ LET r == Reclaim(<<>>) IN
        /\ in_progress' = r.in_progress
        /\ pending' = r.pending
        /\ files' = r.files
        /\ log' = r.log
        /\ raised' = r.raised
        /\ pc' = IF r.raised = "none" THEN "returned" ELSE "raised"
        /\ unread' = unread \cup {CmdName(t) : t \in r.requeued}
        /\ requeued' = requeued \cup r.requeued
    /\ UNCHANGED <<max_workers, clock, produced, deleted, dirs, todo, command_files, targets,
                   cf_idx, cf_is_file, seen_valid>>

\* loop() is called on the instance: for the first time, again after it
\* returned, or again after an exception left it.  An exception reaches the
\* caller only once the `with ThreadPoolExecutor` block has shut the executor
\* down, which waits for the submitted jobs; their entries stay in
\* _in_progress.  loop() logs that it starts to watch command_dir and enters
\* the while loop with the _pending and _in_progress the instance has.
LoopEnter ==
    /\ \/ pc \in {"idle", "returned"}
       \/ /\ pc = "raised"
          /\ raised # "ValueError"
          /\ \A i \in DOMAIN in_progress : IsDone(in_progress[i])
    /\ pc' = "start"
    /\ raised' = "none"
    /\ log' = <<<<"watch">>>>
    /\ UNCHANGED <<max_workers, clock, produced, deleted, files, dirs, pending, in_progress,
                   todo, command_files, targets, cf_idx, cf_is_file, hist_vars>>

\* The steps of the control loop.
LoopNext ==
    \/ CycleStart
    \/ Glob
    \/ \E f \in FileNames : Ingest(f)
    \/ Dispatch
    \/ CleanupCheck
    \/ CleanupUnlink
    \/ CleanupDone
    \/ Continue
    \/ Stop
    \/ WaitForAll
    \/ LoopEnter

\* The control loop with the producer, the worker threads, directories being
\* created and another process removing command files.
Next ==
    \/ \E t \in Targets : Produce(t)
    \/ \E f \in FileNames : ExternalDelete(f)
    \/ \E t \in Targets : MkDir(t)
    \/ JobFinish
    \/ LoopNext

\* The same with no other process removing command files.
NextProducerOnly ==
    \/ \E t \in Targets : Produce(t)
    \/ \E t \in Targets : MkDir(t)
    \/ JobFinish
    \/ LoopNext

\* The constructor followed by the control loop and its environment.
NextNew ==
    \/ Construct
    \/ Next

\* The clock of the control loop.
NextThrottle ==
    \/ CycleBegin
    \/ ClockTick
    \/ Throttle

Spec == Init /\ [][Next]_vars

SpecNew == InitNew /\ [][NextNew]_vars

\* The control loop with its producer and its jobs, started with nothing
\* signalled or with a burst of signals waiting.
SpecBurst == (Init \/ InitBurst) /\ [][NextProducerOnly]_vars

SpecThrottle == InitThrottle /\ [][NextThrottle]_vars

\* The control loop with its producer under the scheduling the code has: the
\* thread of the loop keeps taking steps, and every submitted job ends
\* (the subprocess exits or is timed out).
SpecFair ==
    /\ Init
    /\ [][NextProducerOnly]_vars
    /\ WF_vars(LoopNext)
    /\ WF_vars(JobFinish)

SpecProducerOnly == Init /\ [][NextProducerOnly]_vars

\* ------------------------------------------------------------------ properties
TypeOK ==
    /\ max_workers \in (1 - NumInvalid)..MaxWorkers
    /\ files \in [FileNames -> FileNames \cup {Nil}]
    /\ dirs \subseteq FileNames
    /\ pending \subseteq FileNames
    /\ produced \in 0..(MaxProduce + NumBurst)
    /\ deleted \in 0..MaxDeletes
    /\ pc \in {"new", "idle", "start", "glob", "ingest", "cleanup", "env", "wait", "returned",
              "raised"}
    /\ raised \in {"none", "read_text", "unlink", "result"}

\* Number of in-flight entries of target t, and of those in state st.
NumJobs(ip, t) == Cardinality({i \in DOMAIN ip : ip[i].target = t})
NumInState(ip, t, st) ==
    Cardinality({i \in DOMAIN ip : ip[i].target = t /\ ip[i].state = st})
NumLogged(lg, rec) == Cardinality({i \in DOMAIN lg : lg[i] = rec})

\* The steps of the control loop, recognised by what they change.
ReclaimStep == pc \in {"start", "wait"} /\ pc' # pc
IngestStepOf(f) == pc = "ingest" /\ f \in todo /\ f \notin todo'
DispatchStep == pc = "ingest" /\ pc' = "cleanup"
UnlinkStep == pc = "cleanup" /\ cf_is_file /\ ~cf_is_file'

\* The entries of the in-flight table ip whose job is still running.
Running(ip) == SelectSeq(ip, LAMBDA job : ~IsDone(job))

\* C1: the In-Flight Table never holds more than max_workers entries,
\* whatever the producer, the jobs and the requeues do.  When a Dispatch
\* pass finds at least as many pending targets as free slots (3 valid
\* targets at once with max_workers = 2), it leaves exactly max_workers
\* entries in flight; and while max_workers jobs are running, that many keep
\* running, nothing being submitted or popped, until one of them finishes.
C1_ConcurrencyBound ==
    /\ [](Len(in_progress) <= max_workers)
    /\ [][DispatchStep /\
                Cardinality(pending \cup Range(targets)) >= max_workers - Len(in_progress)
            => Len(in_progress') = max_workers]_vars
    /\ [][Len(Running(in_progress)) = max_workers =>
            \/ in_progress' = in_progress
            \/ /\ Len(Running(in_progress')) = max_workers - 1
               /\ Len(in_progress') = max_workers
               /\ \A i \in DOMAIN in_progress :
                     in_progress'[i].target = in_progress[i].target]_vars

\* With max_workers = 2 and three valid targets signalled at once, two jobs
\* are running and the third target waits in the Pending Set.
C1_Witness ==
    /\ max_workers = 2
    /\ Len(in_progress) = 2
    /\ Len(Running(in_progress)) = 2
    /\ Cardinality(pending) = 1
    /\ Cardinality(pending \cup {in_progress[i].target : i \in DOMAIN in_progress}) = 3
    /\ pc = "cleanup"

\* C2: no two in-flight jobs run the same target.
C2_NoDuplicateInFlight ==
    \A i, j \in DOMAIN in_progress :
        i # j => in_progress[i].target # in_progress[j].target

\* C3: no target is both in the Pending Set and in the In-Flight Table.
C3_PendingInFlightDisjoint == pending \cap InFlight(in_progress) = {}

\* C4: in every Dispatch pass, a target that is pending, or that was ingested
\* in this cycle while no job for it was in flight, is either submitted exactly
\* once or stays pending; for any other target (in particular one ingested
\* while a job for it was in flight, whose appearance is absorbed) no job is
\* submitted and nothing is left pending.
C4_OncePerAppearance ==
    [][DispatchStep =>
        \A t \in Targets :
            IF t \in pending \/ (t \in Range(targets) /\ t \notin InFlight(in_progress))
            THEN \/ /\ NumJobs(in_progress', t) = NumJobs(in_progress, t) + 1
                    /\ t \notin pending'
                 \/ /\ NumJobs(in_progress', t) = NumJobs(in_progress, t)
                    /\ t \in pending'
            ELSE /\ NumJobs(in_progress', t) = NumJobs(in_progress, t)
                 /\ t \notin pending'
      ]_vars

\* C5: a target is pending, listed for dispatch or in flight only if a command
\* file naming it was ingested while it was an existing directory; and the
\* ingest of a command file naming a path that is no directory leaves the
\* targets, the Pending Set and the In-Flight Table as they are, logs exactly
\* one error naming the file and the path, and raises nothing.
C5_InvalidTargetDiscarded ==
    /\ [](pending \cup Range(targets) \cup InFlight(in_progress) \subseteq seen_valid)
    /\ [][\A f \in FileNames :
            (IngestStepOf(f) /\ files[f] # Nil /\ files[f] \notin dirs) =>
                /\ targets' = targets
                /\ pending' = pending
                /\ in_progress' = in_progress
                /\ log' = << <<"error", f, files[f]>> >>
                /\ pc' = "ingest"
                /\ raised' = "none"
         ]_vars

\* An error has just been logged for a path that was created afterwards and
\* has never been ingested as a directory: it is neither pending nor in flight.
C5_Witness ==
    \E f \in FileNames, t \in Targets :
        /\ log = << <<"error", f, t>> >>
        /\ t \in dirs
        /\ t \notin seen_valid
        /\ t \notin pending \cup InFlight(in_progress)

\* C6: in a Reclaim pass, the entries of timed-out jobs that leave the
\* In-Flight Table are exactly those a warning is logged for, and each such
\* target is then in the Pending Set with its command file regenerated; when
\* the pass raises nothing, no timed-out entry is left in the table.
C6_TimeoutRequeued ==
    [][ReclaimStep =>
        \A t \in Targets :
            LET gone == NumInState(in_progress, t, "timeout")
                        - NumInState(in_progress', t, "timeout")
            IN /\ NumLogged(log', <<"warning", t>>) = gone
               /\ gone > 0 => /\ t \in pending'
                              /\ files'[CmdName(t)] = t
               /\ raised' = "none" => NumInState(in_progress', t, "timeout") = 0
      ]_vars

\* A timed-out job has just been reclaimed: warning logged, target pending,
\* command file present, entry gone.
C6_Witness ==
    \E t \in Targets :
        /\ pc = "glob"
        /\ log = << <<"warning", t>> >>
        /\ t \in pending
        /\ files[CmdName(t)] = t
        /\ t \notin InFlight(in_progress)

\* C7: whenever a target requeued after a timeout still waits in the Pending
\* Set, a command file naming it exists in the command directory (no process
\* other than the control loop removes command files).
C7_RequeueDurable ==
    \A t \in requeued \cap pending : files[CmdName(t)] = t

\* Position of the command file f in the list cfs (0 if absent).
IndexOf(cfs, f) ==
    IF \E i \in DOMAIN cfs : cfs[i] = f
    THEN CHOOSE i \in DOMAIN cfs : cfs[i] = f
    ELSE 0

\* C8: while the loop runs, a command file that has been read and is still on
\* disk as it was read is recorded in command_files of the current cycle and is
\* still ahead of Cleanup; hence none is left once Cleanup is over or when the
\* next cycle starts.  And Ingest reads no command file twice.
C8_ReadOnceThenDeleted ==
    /\ [](pc # "raised" =>
            \A f \in FileNames :
                (files[f] # Nil /\ f \notin unread) =>
                    /\ pc \in {"ingest", "cleanup"}
                    /\ IndexOf(command_files, f) > 0
                    /\ pc = "cleanup" => IndexOf(command_files, f) >= cf_idx)
    /\ [][\A f \in FileNames :
            (IngestStepOf(f) /\ files[f] # Nil) => f \in unread]_vars

\* C9: Cleanup never raises, whenever another process deletes a command file.
C9_CleanupTolerant == raised # "unlink"

\* C10: a Reclaim pass removes every finished job from the In-Flight Table,
\* requeues only targets of timed-out jobs and does not terminate the loop.
C10_NonTimeoutDropped ==
    [][ReclaimStep =>
        /\ raised' = "none"
        /\ in_progress' = SelectSeq(in_progress, LAMBDA job : ~IsDone(job))
        /\ \A t \in pending' \ pending : NumInState(in_progress, t, "timeout") > 0
      ]_vars

\* C11: constructing with max_workers < 1 fails with ValueError and there is
\* never an instance (no cycle, ingest or dispatch happens, nothing is pending
\* or in flight); constructing with max_workers >= 1 succeeds with an empty
\* _pending and an empty _in_progress.
C11_Constructor ==
    /\ [](max_workers < 1 =>
            /\ pc \in {"new", "raised"}
            /\ pc = "raised" => raised = "ValueError"
            /\ pending = {} /\ in_progress = <<>>
            /\ command_files = <<>> /\ targets = <<>> /\ todo = {}
            /\ seen_valid = {})
    /\ [][pc = "new" /\ pc' # "new" =>
            IF max_workers < 1
            THEN pc' = "raised" /\ raised' = "ValueError"
            ELSE /\ pc' = "idle" /\ raised' = "none"
                 /\ max_workers' = max_workers
                 /\ pending' = {} /\ in_progress' = <<>>]_vars

\* A rejected constructor call while command files are waiting.
C11_Witness ==
    /\ max_workers < 1
    /\ raised = "ValueError"
    /\ \E f \in FileNames : files[f] # Nil /\ files[f] \in dirs

\* The drain of a stopped loop: _wait_for_all returns or raises.
DrainStep == pc = "wait" /\ pc' # "wait"

\* C12: when the stop signal is observed the drain waits for every job in
\* flight and reclaims each of them: the loop returns with an empty
\* _in_progress, and every job that timed out has its command file written
\* again and its target in _pending.
C12_DrainReclaimsAll ==
    [][DrainStep =>
        /\ \A i \in DOMAIN in_progress : IsDone(in_progress[i])
        /\ in_progress' = <<>>
        /\ \A i \in DOMAIN in_progress :
              in_progress[i].state = "timeout" =>
                /\ in_progress[i].target \in pending'
                /\ files'[CmdName(in_progress[i].target)] = in_progress[i].target]_vars

\* C13: when the throttle sleep of a cycle is over (the next cycle is about
\* to start), the time since the start of the cycle is at least the poll
\* wait, whatever time the work of the cycle took, and the sleep was not
\* negative.
C13_ThrottleAtLeastWait ==
    clock.phase = "slept" =>
        /\ clock.slept >= 0
        /\ clock.now - clock.start_time >= clock.wait

Min(a, b) == IF a <= b THEN a ELSE b

\* The targets of the entries that a step appends to _in_progress.
NewJobs == {in_progress'[i].target : i \in (Len(in_progress) + 1)..Len(in_progress')}

\* C14: a Dispatch pass started with in-flight table F and pending set P
\* submits exactly min(max_workers - |F|, |P|) targets, none when that is
\* <= 0: the entries of F stay, each submitted target is a distinct element
\* of P with exactly one new running entry and one "Syncing" record, and
\* _pending afterwards is P without the submitted targets.
C14_DispatchCount ==
    [][DispatchStep =>
        LET F == in_progress
            P == pending \cup Range(targets)
            k == Min(max_workers - Len(F), Cardinality(P))
            n == IF k <= 0 THEN 0 ELSE k
        IN
        /\ Len(in_progress') = Len(F) + n
        /\ SubSeq(in_progress', 1, Len(F)) = F
        /\ \A i \in (Len(F) + 1)..Len(in_progress') : in_progress'[i].state = "running"
        /\ NewJobs \subseteq P
        /\ Cardinality(NewJobs) = n
        /\ Len(log') = n
        /\ \A t \in NewJobs : NumLogged(log', <<"info", t>>) = 1
        /\ pending' = P \ NewJobs]_vars

\* A Dispatch pass has just submitted one target, filling the last free slot,
\* and has left the rest of the pending set behind.
C14_Witness ==
    /\ pc = "cleanup" /\ cf_idx = 1 /\ ~cf_is_file
    /\ Len(log) = 1
    /\ Len(in_progress) = max_workers
    /\ log[1] = <<"info", in_progress[Len(in_progress)].target>>
    /\ pending # {}

\* C15: a command file that was listed and cannot be read (it was removed
\* between the listing and the read) is skipped: the loop goes on with the
\* other command files of the scan, nothing is raised, and the lists of the
\* scan, _pending and _in_progress are unchanged.
C15_ReadErrorLocal ==
    [][\A f \in FileNames :
        IngestStepOf(f) /\ files[f] = Nil =>
            /\ pc' = "ingest" /\ raised' = "none"
            /\ command_files' = command_files /\ targets' = targets
            /\ pending' = pending /\ in_progress' = in_progress]_vars

\* C16: with the loop cycling for ever and every job ending, a target whose
\* job timed out is eventually dispatched again.
C16_TimeoutRetried ==
    ([]<>(pc = "start")) =>
        \A t \in Targets : (t \in requeued) ~> (t \notin requeued)

\* C17: Reclaim pops only entries whose job is done and pops each of them
\* once: the running entries stay as they are and in their order, nothing
\* is added, when nothing is raised no done entry is left, and the reclaim
\* at the top of a cycle is never held up by a job that is still running.
C17_ReclaimOnlyDone ==
    /\ [](pc = "start" => ENABLED CycleStart)
    /\ [][ReclaimStep =>
            /\ Running(in_progress') = Running(in_progress)
            /\ Len(in_progress') <= Len(in_progress)
            /\ \A t \in Targets : \A st \in Outcomes :
                  NumInState(in_progress', t, st) <= NumInState(in_progress, t, st)
            /\ raised' = "none" => in_progress' = Running(in_progress)]_vars

\* The reclaim at the top of a cycle has popped a timed-out job and left a
\* running one in place.
C17_Witness ==
    /\ pc = "glob"
    /\ Len(log) >= 1 /\ log[1][1] = "warning"
    /\ Len(in_progress) >= 1
    /\ in_progress[1].state = "running"

\* The moves of the control loop from one step to the next: Reclaim, the
\* listing and Ingest, Dispatch, Cleanup, then the throttle sleep back to
\* Reclaim or the drain and the return.
CycleOrder ==
    {<<"start", "glob">>, <<"glob", "ingest">>, <<"ingest", "cleanup">>,
     <<"cleanup", "env">>, <<"env", "start">>, <<"env", "wait">>,
     <<"wait", "returned">>, <<"returned", "start">>, <<"idle", "start">>,
     <<"raised", "start">>}

\* C18: the steps of a cycle occur in the order Reclaim, Ingest, Dispatch,
\* Cleanup, Throttle.  No entry is added to or popped from _in_progress
\* between the Reclaim and the Dispatch of a cycle, and Dispatch fills a
\* free slot whenever a target is pending, so a slot freed by Reclaim serves
\* the same cycle; every target ingested in the cycle is pending or
\* submitted after the cycle's Dispatch; and the loop removes a command file
\* only in Cleanup, after that Dispatch, and only one it has recorded.
C18_CycleOrder ==
    [][/\ pc' # pc => <<pc, pc'>> \in CycleOrder \/ pc' = "raised"
       /\ pc \in {"glob", "ingest"} /\ ~DispatchStep => Len(in_progress') = Len(in_progress)
       /\ DispatchStep =>
            /\ Range(targets) \subseteq pending' \cup NewJobs
            /\ (pending \cup Range(targets) # {} /\ Len(in_progress) < max_workers
                 => NewJobs # {})
       /\ \A f \in FileNames :
            files[f] # Nil /\ files'[f] = Nil /\ deleted' = deleted =>
                /\ pc = "cleanup"
                /\ cf_is_file
                /\ command_files[cf_idx] = f]_vars

\* With one worker: Dispatch has just submitted a target ingested in this
\* cycle, and its command file is still there for Cleanup to remove.
C18_Witness ==
    /\ pc = "cleanup" /\ cf_idx = 1 /\ ~cf_is_file
    /\ max_workers = 1
    /\ Len(log) = 1
    /\ \E i \in DOMAIN targets :
          /\ log[1] = <<"info", targets[i]>>
          /\ files[command_files[1]] = targets[i]
    /\ in_progress = <<[target |-> log[1][2], state |-> "running"]>>

\* loop() is entered: the first invocation on an instance, or a later one.
LoopEnterStep == pc \in {"idle", "returned", "raised"} /\ pc' = "start"

\* C19: at the start of every invocation of the loop, the first one and any
\* later one on the same instance, _pending and _in_progress are both empty.
C19_EmptyAtLoopStart ==
    [][LoopEnterStep => pending' = {} /\ in_progress' = <<>>]_vars

\* C20: Cleanup never removes a command file that the producer has written
\* since the scan of the cycle read it: no signal is deleted unread.
C20_NoSignalDeletedUnread ==
    [][\A f \in FileNames :
        UnlinkStep /\ files[f] # Nil /\ files'[f] = Nil => f \notin unread]_vars

====
